---- MODULE Spec2Model ----
(***************************************************************************)
(* choose-from: a chooser closure is handed every element of a collection  *)
(* wrapped in a Choice<'guard, T> and must hand Choices back; the library  *)
(* unwraps them.  The model covers SelectorFixed (src/src/fixed.rs),       *)
(* Selector (src/src/vec.rs), Choice/Guard (src/src/choice.rs) and the     *)
(* entry functions (src/src/lib.rs).  What rustc decides statically (move  *)
(* of `self`, absence of Clone on Choice, the lifetime in the chooser's    *)
(* return type) appears as guards on what a chooser can do.                *)
(***************************************************************************)
EXTENDS Integers, Sequences, FiniteSets, TLC

\* ------------------------------------------------------------------ bounds
\* What one run may spend: 1 for each selector constructed, 1 for each element
\* moved into a selector, 1 for each choose call made.
MaxWork == 7

\* The input collections: one per length, values 1, 2, 1, 2, ... so that equal
\* values sit at distinct positions and in distinct collections.
Collections == {[i \in 1..n |-> 2 - (i % 2)] : n \in 0..MaxWork}

\* ------------------------------------------------------------------ values
Range(f) == {f[i] : i \in DOMAIN f}

\* An element of a collection: its value and which slot of which selector it
\* was moved in from (Rust moves the object itself; `at` is that identity).
Element(v, s, i) == [val |-> v, at |-> <<s, i>>]

\* the lifetime 'static: outlives every guard
Static == 0

\* Faulty variant: the result's lifetime is not tied to the borrow of the Guard.
with_guard_unbound(value, guard) == [value |-> value, guard |-> Static]

\* Choice::with_guard: the Choice carries the value and the lifetime of the
\* borrow of the Guard it was built with (the guard of call `guard`).
with_guard(value, guard) == [value |-> value, guard |-> guard]

\* Choice::into_inner
into_inner(self) == self.value

\* Faulty variant: the values come out in input order.
to_values_sorted(choices) ==
    LET n == Len(choices)
        Rank(j) == Cardinality({k \in 1..n :
                      \/ choices[k].value.at[2] < choices[j].value.at[2]
                      \/ (choices[k].value.at[2] = choices[j].value.at[2] /\ k < j)}) + 1
    IN  [r \in 1..n |-> into_inner(choices[CHOOSE j \in 1..n : Rank(j) = r])]

\* choice::to_values: choices.into_iter().map(Choice::into_inner).collect()
to_values(choices) == [j \in 1..Len(choices) |-> into_inner(choices[j])]

\* [Choice; K]::map(Choice::into_inner) in SelectorFixed::with / Selector::with
map_into_inner(chosen) == [j \in 1..Len(chosen) |-> into_inner(chosen[j])]

\* Faulty variant: the last element is not wrapped.
SelectorFixed_into_choices_short(choices, guard) ==
    [i \in 1..(IF Len(choices) = 0 THEN 0 ELSE Len(choices) - 1) |-> with_guard(choices[i], guard)]

\* SelectorFixed::into_choices: self.choices.map(|t| Choice::with_guard(t, _guard))
SelectorFixed_into_choices(choices, guard) ==
    [i \in 1..Len(choices) |-> with_guard(choices[i], guard)]

\* Selector::into_choices: self.choices.into_iter().map(|t| Choice::with_guard(t, _guard)).collect()
Selector_into_choices(choices, guard) ==
    [i \in 1..Len(choices) |-> with_guard(choices[i], guard)]

\* ------------------------------------------------------------------ state
VARIABLES
    selectors,   \* every Selector / SelectorFixed constructed so far, in order
    calls,       \* every call of with / any_with made so far, in order; a call's
                 \* index is its Guard (one `let _guard = Guard` per call)
    stack,       \* the calls whose body is executing, innermost last
    smuggler     \* Choices stored where they outlive the call that built them

vars == <<selectors, calls, stack, smuggler>>

Phases == <<"Idle", "TokensIssued", "ResultUnwrapped", "Closed">>

Top == stack[Len(stack)]

\* the elements of selector s, and the N of call c
ChoicesOf(s) == selectors[s].choices
N(c) == Len(ChoicesOf(calls[c].sel))

\* Faulty variant: the selector stays usable, as with `&self` or a Copy selector.
MoveSelf_copy(selector) == selector

\* `self` is taken by value by with / any_with: the selector is moved into
\* the call and the caller's binding is dead afterwards.
MoveSelf(selector) == [selector EXCEPT !.moved = TRUE]

\* Faulty variant: Choice derives Clone.
NoClone_cloned(chosen) == TRUE

\* Choice derives Debug only: no Clone, no Copy.  A sequence of Choices built
\* by a chooser therefore holds no Choice twice.
NoClone(chosen) == \A j, k \in DOMAIN chosen : chosen[j] = chosen[k] => j = k

\* Faulty variant: every chooser's return type names a lifetime parameter of
\* the method, as Selector::any_with does.
ReturnLifetime_caller(kind, op) == "caller"

\* The lifetime the chooser's return type names.  `Choice<'_, T>` in the
\* FnOnce bounds of SelectorFixed::with, SelectorFixed::any_with and
\* Selector::with elides to the lifetime of the argument (the call's own
\* guard, for<'a>).  Selector::any_with names `'guard`, a lifetime parameter
\* of any_with itself, which the caller picks and which outlives the call.
ReturnLifetime(kind, op) ==
    IF kind = "Selector" /\ op = "any_with" THEN "caller" ELSE "argument"

\* Choice<'x, T> is covariant in 'x (PhantomData<&'x Guard>): a Choice is
\* accepted where a Choice<'r, T> is expected iff its lifetime outlives 'r.
\*   'r = the argument's lifetime, for every 'a: only 'a itself and 'static do;
\*   'r = 'guard of the caller: the guards of the calls enclosing this one do
\*        (their borrow is live across the whole inner call), the call's own
\*        guard, created inside the body, does not.
Accepts(c, choice) ==
    \/ choice.guard = Static
    \/ /\ ReturnLifetime(selectors[calls[c].sel].kind, calls[c].op) = "argument"
       /\ choice.guard = c
    \/ /\ ReturnLifetime(selectors[calls[c].sel].kind, calls[c].op) = "caller"
       /\ choice.guard \in calls[c].outer

\* A Choice can be kept in storage that outlives the call only if its
\* lifetime does: `smuggler.extend(choices.drain(1..))` of the crate docs.
Escapes(choice) == choice.guard = Static

\* The Choices a running chooser can name: its argument, what the choosers
\* around it still own (a closure captures them), and what was smuggled.
Visible(c) == smuggler \cup UNION {calls[d].held : d \in calls[c].outer \cup {c}}

\* work spent so far
RECURSIVE Elements(_)
Elements(s) == IF s = 0 THEN 0 ELSE Len(selectors[s].choices) + Elements(s - 1)
Work == Len(selectors) + Elements(Len(selectors)) + Len(calls)

Init ==
    /\ selectors = <<>>
    /\ calls = <<>>
    /\ stack = <<>>
    /\ smuggler = {}

\* ------------------------------------------------------------------ entry functions
\* Constructing a selector has no effect on anything else, so it commutes
\* with every other step: each selector is constructed when the ones before
\* it have been used.
with_choices(kind, vs) ==
    /\ Work + 1 + Len(vs) <= MaxWork
    /\ \A t \in DOMAIN selectors : selectors[t].moved
    /\ selectors' = Append(selectors,
          [kind |-> kind,
           choices |-> [i \in 1..Len(vs) |-> Element(vs[i], Len(selectors) + 1, i)],
           moved |-> FALSE])
    /\ UNCHANGED <<calls, stack, smuggler>>

\* select_from(choices) -> Selector::with_choices(choices)
select_from == \E vs \in Collections : with_choices("Selector", vs)

\* select_from_fixed(choices) -> SelectorFixed::with_choices(choices)
select_from_fixed == \E vs \in Collections : with_choices("SelectorFixed", vs)

\* ------------------------------------------------------------------ the choose calls
\* with / any_with up to the point where the chooser runs:
\*     let _guard = Guard;
\*     let choices = self.into_choices(&_guard);
\*     chooser(choices) ...
\* `self` is moved in, the call's Guard is created (the call's index names
\* it), every element is wrapped, and the chooser starts with all of them.
\* The caller is top-level code or a chooser that has not returned yet.
\* K is the const generic of `with` (any K type-checks; K > N + 1 behaves as
\* K = N + 1); any_with has none.
Invoke(s, kind, op, K, given) ==
    /\ s \in DOMAIN selectors
    /\ selectors[s].kind = kind
    /\ ~selectors[s].moved
    /\ Work + 1 <= MaxWork
    /\ IF stack = <<>> THEN TRUE ELSE calls[Top].phase = "TokensIssued"
    /\ selectors' = [selectors EXCEPT ![s] = MoveSelf(@)]
    /\ calls' = Append(calls,
          [sel |-> s, op |-> op, K |-> K, phase |-> "TokensIssued", unwound |-> FALSE,
           outer |-> Range(stack), given |-> given, held |-> Range(given),
           chosen |-> <<>>, out |-> <<>>])
    /\ stack' = Append(stack, Len(calls) + 1)
    /\ UNCHANGED smuggler

SelectorFixed_with ==
    \E s \in DOMAIN selectors : \E K \in 0 .. (Len(ChoicesOf(s)) + 1) :
        Invoke(s, "SelectorFixed", "with", K,
               SelectorFixed_into_choices(ChoicesOf(s), Len(calls) + 1))

SelectorFixed_any_with ==
    \E s \in DOMAIN selectors :
        Invoke(s, "SelectorFixed", "any_with", 0,
               SelectorFixed_into_choices(ChoicesOf(s), Len(calls) + 1))

Selector_with ==
    \E s \in DOMAIN selectors : \E K \in 0 .. (Len(ChoicesOf(s)) + 1) :
        Invoke(s, "Selector", "with", K,
               Selector_into_choices(ChoicesOf(s), Len(calls) + 1))

Selector_any_with ==
    \E s \in DOMAIN selectors :
        Invoke(s, "Selector", "any_with", 0,
               Selector_into_choices(ChoicesOf(s), Len(calls) + 1))

\* The chooser returns `chosen`; the library unwraps it:
\*   with:     chooser(choices).map(Choice::into_inner)
\*   any_with: choice::to_values(chooser(choices))
\* Every Choice the chooser named is moved out of where it was; what the
\* chooser still owns is dropped with its frame, unless it could escape.
ChooserReturns ==
    /\ stack # <<>>
    /\ calls[Top].phase = "TokensIssued"
    /\ LET c == Top
           cand == {t \in Visible(c) : Accepts(c, t)}
           lens == IF calls[c].op = "with" THEN {calls[c].K} ELSE 0..Cardinality(cand)
       IN  \E n \in lens : \E chosen \in [1..n -> cand] :
             /\ NoClone(chosen)
             /\ \E esc \in SUBSET {t \in calls[c].held \ Range(chosen) : Escapes(t)} :
                  /\ smuggler' = (smuggler \ Range(chosen)) \cup esc
                  /\ calls' = [d \in DOMAIN calls |->
                        IF d = c
                        THEN [calls[d] EXCEPT
                                !.phase = "ResultUnwrapped",
                                !.held = {},
                                !.chosen = chosen,
                                !.out = IF calls[c].op = "with"
                                        THEN map_into_inner(chosen)
                                        ELSE to_values(chosen)]
                        ELSE [calls[d] EXCEPT !.held = @ \ Range(chosen)]]
    /\ UNCHANGED <<selectors, stack>>

\* with / any_with returns its values; _guard is dropped.
Return ==
    /\ stack # <<>>
    /\ calls[Top].phase = "ResultUnwrapped"
    /\ calls' = [calls EXCEPT ![Top].phase = "Closed"]
    /\ stack' = SubSeq(stack, 1, Len(stack) - 1)
    /\ UNCHANGED <<selectors, smuggler>>

\* Faulty variant: the unwind is caught and the call returns normally.
ChooserPanics_swallowed ==
    /\ stack # <<>>
    /\ calls[Top].phase = "TokensIssued"
    /\ calls' = [calls EXCEPT ![Top].phase = "Closed", ![Top].held = {}]
    /\ stack' = SubSeq(stack, 1, Len(stack) - 1)
    /\ UNCHANGED <<selectors, smuggler>>

\* The chooser panics instead of returning (`.try_into().unwrap()` on too
\* few choices, as in the select_from example): the call unwinds, its
\* Choices are dropped and nothing is unwrapped; the chooser never returned,
\* so the call is left in TokensIssued.  The code around the call may catch
\* the unwind or panic in turn.
ChooserPanics ==
    /\ stack # <<>>
    /\ calls[Top].phase = "TokensIssued"
    /\ calls' = [calls EXCEPT ![Top].unwound = TRUE, ![Top].held = {}]
    /\ stack' = SubSeq(stack, 1, Len(stack) - 1)
    /\ UNCHANGED <<selectors, smuggler>>

Next ==
    \/ select_from
    \/ select_from_fixed
    \/ SelectorFixed_with
    \/ SelectorFixed_any_with
    \/ Selector_with
    \/ Selector_any_with
    \/ ChooserReturns
    \/ Return
    \/ ChooserPanics

Spec == Init /\ [][Next]_vars

\* ------------------------------------------------------------------ properties
Calls == DOMAIN calls
HasResult(c) == calls[c].phase \in {"ResultUnwrapped", "Closed"}
Own(c) == Range(ChoicesOf(calls[c].sel))
Distinct(seq) == \A j, k \in DOMAIN seq : seq[j] = seq[k] => j = k
KindOf(c) == selectors[calls[c].sel].kind

\* how often Choice t was unwrapped, over all calls
RECURSIVE Unwraps(_, _)
Unwraps(t, c) ==
    IF c = 0 THEN 0
    ELSE Cardinality({j \in DOMAIN calls[c].chosen : calls[c].chosen[j] = t}) + Unwraps(t, c - 1)

\* call a was over (returned or unwound) before call b began
Sequential(a, b) == a < b /\ a \notin calls[b].outer

\* C1: a `with` call that yields a result yields exactly K values, K <= N,
\* each one an element of its own input (same selector, same slot), and no
\* element twice.
C1_ExactlyKOwnDistinct ==
    \A c \in Calls :
        (calls[c].op = "with" /\ HasResult(c)) =>
            /\ calls[c].K <= N(c)
            /\ Len(calls[c].out) = calls[c].K
            /\ \A j \in DOMAIN calls[c].out : calls[c].out[j] \in Own(c)
            /\ Distinct(calls[c].out)

\* both selectors have returned from `with`, one of them nested in the other,
\* with K >= 1 values each
C1_Witness ==
    \E c, d \in Calls :
        /\ KindOf(c) = "SelectorFixed" /\ KindOf(d) = "Selector"
        /\ calls[c].op = "with" /\ calls[d].op = "with"
        /\ calls[c].phase = "Closed" /\ calls[d].phase = "Closed"
        /\ calls[c].K = 2 /\ calls[d].K = 1
        /\ c \in calls[d].outer

\* C2: an any_with call that yields a result yields at most N values, each an
\* element of its own input, and no element twice.
C2_AnyOwnDistinct ==
    \A c \in Calls :
        (calls[c].op = "any_with" /\ HasResult(c)) =>
            /\ Len(calls[c].out) <= N(c)
            /\ \A j \in DOMAIN calls[c].out : calls[c].out[j] \in Own(c)
            /\ Distinct(calls[c].out)

\* C3: every Choice a call unwraps was built with that call's own Guard.
C3_UnwrapsOwnGuardOnly ==
    \A c \in Calls : \A j \in DOMAIN calls[c].chosen : calls[c].chosen[j].guard = c

\* C4: when call a is over before call b begins, on another collection, b
\* unwraps no Choice of a and outputs no element of a's collection.
C4_NoReuseAcrossSequentialCalls ==
    \A a, b \in Calls :
        (Sequential(a, b) /\ calls[a].sel # calls[b].sel) =>
            /\ \A j \in DOMAIN calls[b].chosen : calls[b].chosen[j].guard # a
            /\ \A j \in DOMAIN calls[b].out : calls[b].out[j].at[1] # calls[a].sel

\* call a returned leaving a Choice unchosen, then call b on another
\* collection returned a value
C4_Witness ==
    \E a, b \in Calls :
        /\ Sequential(a, b) /\ calls[a].sel # calls[b].sel
        /\ calls[a].phase = "Closed" /\ calls[b].phase = "Closed"
        /\ Len(calls[a].chosen) < N(a)
        /\ Len(calls[b].out) >= 1

\* the chooser of call c was started (a call is recorded from that point on)
ChooserInvoked(c) == calls[c].phase \in {"TokensIssued", "ResultUnwrapped", "Closed"}

C6_OutputInSelectionOrder ==
    \A c \in Calls :
        HasResult(c) =>
            /\ Len(calls[c].out) = Len(calls[c].chosen)
            /\ \A j \in DOMAIN calls[c].chosen : calls[c].out[j] = calls[c].chosen[j].value

\* any_with over three elements, the chooser returned [third, first]
C6_Witness ==
    \E c \in Calls :
        /\ calls[c].op = "any_with" /\ HasResult(c) /\ N(c) = 3
        /\ calls[c].chosen = <<calls[c].given[3], calls[c].given[1]>>
        /\ calls[c].out = <<ChoicesOf(calls[c].sel)[3], ChoicesOf(calls[c].sel)[1]>>

\* C7: no selector is the `self` of two choose calls.
C7_OneShot ==
    \A s \in DOMAIN selectors : Cardinality({c \in Calls : calls[c].sel = s}) <= 1

\* a selector's call has returned and the run could still make a call
C7_Witness ==
    \E c \in Calls :
        /\ calls[c].phase = "Closed"
        /\ selectors[calls[c].sel].moved
        /\ Work + 1 <= MaxWork

\* The phase of the choose call on selector s: Idle while the selector is
\* owned and no call was made, then the phase of its call.
PhaseOf(s) ==
    IF \E c \in Calls : calls[c].sel = s
    THEN calls[CHOOSE c \in Calls : calls[c].sel = s].phase
    ELSE "Idle"

\* C8: the phase of a call only ever moves to the next of Idle, TokensIssued,
\* ResultUnwrapped, Closed; Closed is left by no step; while the chooser runs
\* (TokensIssued) every Choice is issued and nothing is unwrapped.
C8_PhaseOrder ==
    [][ /\ \A s \in DOMAIN selectors :
              PhaseOf(s)' # PhaseOf(s) =>
                  \E i \in 1..3 : PhaseOf(s) = Phases[i] /\ PhaseOf(s)' = Phases[i + 1]
        /\ \A s \in DOMAIN selectors' : s \notin DOMAIN selectors => PhaseOf(s)' = "Idle"
        /\ \A c \in Calls :
              calls[c].phase = "TokensIssued" =>
                  /\ Len(calls[c].given) = N(c)
                  /\ calls[c].chosen = <<>> /\ calls[c].out = <<>>
      ]_vars

\* a call went through to Closed
C8_Witness ==
    \E s \in DOMAIN selectors : PhaseOf(s) = "Closed" /\ Len(ChoicesOf(s)) >= 1

\* C9: the chooser is started with exactly N Choices, the i-th wrapping
\* element i, every one built with this call's Guard.
C9_AllElementsIssuedInOrder ==
    \A c \in Calls :
        /\ Len(calls[c].given) = N(c)
        /\ \A i \in 1..N(c) :
              /\ calls[c].given[i].value = ChoicesOf(calls[c].sel)[i]
              /\ calls[c].given[i].guard = c
        /\ Distinct(calls[c].given)

\* a SelectorFixed call and a Selector call, both with N >= 1, whose choosers run
C9_Witness ==
    \E c, d \in Calls :
        /\ KindOf(c) = "SelectorFixed" /\ KindOf(d) = "Selector"
        /\ N(c) >= 1 /\ N(d) >= 1
        /\ calls[c].phase = "TokensIssued" /\ calls[d].phase = "TokensIssued"
        /\ ~calls[c].unwound /\ ~calls[d].unwound

\* C10: no Choice is unwrapped twice; Choices are unwrapped only by a call
\* whose chooser has returned; and when a call is Closed each of its N
\* Choices was either unwrapped by it, its value in the call's output, or
\* dropped, its value in no output at all, and none is held anywhere.
C10_UnwrappedOnceOrDiscarded ==
    \A c \in Calls :
        /\ \A i \in DOMAIN calls[c].given : Unwraps(calls[c].given[i], Len(calls)) <= 1
        /\ calls[c].chosen # <<>> => HasResult(c)
        /\ calls[c].phase = "Closed" =>
              /\ \A i \in DOMAIN calls[c].given :
                    LET t == calls[c].given[i] IN
                    \/ /\ t \in Range(calls[c].chosen)
                       /\ t.value \in Range(calls[c].out)
                    \/ \A d \in Calls : t.value \notin Range(calls[d].out)
              /\ \A d \in Calls : \A t \in calls[d].held : t.guard # c
              /\ \A t \in smuggler : t.guard # c

====
